---- MODULE Spec2Model ----
(***************************************************************************)
(* A model of pypcd4 (src/src/pypcd4/pypcd4.py): the PCD header model      *)
(* MetaData, the payload transcoder _parse_pc_data / PointCloud.save and   *)
(* the PointCloud facade.                                                  *)
(*                                                                         *)
(* Python strings are sequences of one-character strings, so formatting,  *)
(* the regular expression HEADER_PATTERN, str.replace, str.split and the   *)
(* int()/float() parsers are modelled by what they do to the characters.   *)
(* Byte strings are sequences of integers in 0..255.                       *)
(***************************************************************************)
EXTENDS Integers, Sequences, FiniteSets, TLC

(***************************************************************************)
(* Bounds of the model.                                                    *)
(***************************************************************************)
MaxPoints == 2      \* largest width and largest height of a cloud
MaxCount == 3       \* largest COUNT of a field
MaxVal == 1         \* cell values are 0..MaxVal
MaxEofReads == 2    \* reads at end of input that are still recorded in `lines`

(***************************************************************************)
(* Characters and strings.                                                 *)
(***************************************************************************)
UpperLetters == <<"A","B","C","D","E","F","G","H","I","J","K","L","M",
                  "N","O","P","Q","R","S","T","U","V","W","X","Y","Z">>
LowerLetters == <<"a","b","c","d","e","f","g","h","i","j","k","l","m",
                  "n","o","p","q","r","s","t","u","v","w","x","y","z">>
Digits == <<"0","1","2","3","4","5","6","7","8","9">>

Range(s) == {s[i] : i \in 1..Len(s)}

IndexOf(s, c) == CHOOSE i \in 1..Len(s) : s[i] = c

\* str.lower() on one character
LowerChar(c) ==
    IF c \in Range(UpperLetters) THEN LowerLetters[IndexOf(UpperLetters, c)] ELSE c

\* str.lower()
Lower(s) == [i \in 1..Len(s) |-> LowerChar(s[i])]

\* the regular expression classes \w and \s
IsWord(c) == c \in Range(UpperLetters) \cup Range(LowerLetters) \cup Range(Digits) \cup {"_"}
IsSpace(c) == c \in {" ", "\t"}
\* the class [\w\s\.] of the second group of HEADER_PATTERN
IsValueChar(c) == IsWord(c) \/ IsSpace(c) \/ c = "."

S_version == <<"v","e","r","s","i","o","n">>
S_fields == <<"f","i","e","l","d","s">>
S_size == <<"s","i","z","e">>
S_type == <<"t","y","p","e">>
S_count == <<"c","o","u","n","t">>
S_width == <<"w","i","d","t","h">>
S_height == <<"h","e","i","g","h","t">>
S_viewpoint == <<"v","i","e","w","p","o","i","n","t">>
S_points == <<"p","o","i","n","t","s">>
S_data == <<"d","a","t","a">>
S_DATA == <<"D","A","T","A">>
S_ascii == <<"a","s","c","i","i">>
S_binary == <<"b","i","n","a","r","y">>
S_binary_compressed == <<"b","i","n","a","r","y","_","c","o","m","p","r","e","s","s","e","d">>
S_binaryscompressed == <<"b","i","n","a","r","y","s","c","o","m","p","r","e","s","s","e","d">>
S_07 == <<"0",".","7">>
S_06 == <<"0",".","6">>

\* str.upper() on the keywords compose_header writes
Upper(s) ==
    [i \in 1..Len(s) |->
        IF s[i] \in Range(LowerLetters) THEN UpperLetters[IndexOf(LowerLetters, s[i])] ELSE s[i]]

\* s.startswith(p)
StartsWith(s, p) == Len(s) >= Len(p) /\ SubSeq(s, 1, Len(p)) = p

RECURSIVE Join(_, _)
\* sep.join(parts)
Join(parts, sep) ==
    IF Len(parts) = 0 THEN <<>>
    ELSE IF Len(parts) = 1 THEN parts[1]
    ELSE parts[1] \o sep \o Join(Tail(parts), sep)

RECURSIVE StrNat(_)
\* str(n) for n >= 0
StrNat(n) == IF n < 10 THEN <<Digits[n + 1]>> ELSE StrNat(n \div 10) \o <<Digits[(n % 10) + 1]>>

\* str(n) for an int
StrInt(n) == IF n < 0 THEN <<"-">> \o StrNat(-n) ELSE StrNat(n)

RECURSIVE Pad4(_)
\* the format specification :04d for n >= 0
Pad4(s) == IF Len(s) >= 4 THEN s ELSE Pad4(<<"0">> \o s)

ValueError == [ok |-> FALSE, err |-> "ValueError"]

\* the value of a string of decimal digits of at most 9 digits
DigitsValue(s) ==
    LET place[k \in 0..Len(s)] ==
            IF k = 0 THEN 0 ELSE 10 * place[k - 1] + (IndexOf(Digits, s[k]) - 1)
    IN place[Len(s)]

\* int(tok): an optional sign followed by decimal digits, ValueError otherwise
ParseInt(tok) ==
    LET neg == Len(tok) > 0 /\ tok[1] = "-"
        body == IF Len(tok) > 0 /\ tok[1] \in {"-", "+"} THEN Tail(tok) ELSE tok
    IN IF Len(body) > 0 /\ \A i \in 1..Len(body) : body[i] \in Range(Digits)
       THEN [ok |-> TRUE, val |-> IF neg THEN 0 - DigitsValue(body) ELSE DigitsValue(body)]
       ELSE ValueError

(***************************************************************************)
(* Floats.  A float is modelled by its value in units of 10^-7; FloatStr   *)
(* is Python's str() of the floats the model uses, ParseFloat is float()   *)
(* on a token.                                                             *)
(***************************************************************************)
F_zero == 0
F_one == 10000000
F_minus_one == 0 - 10000000
F_tiny == F_one \div 10000000

FloatDomain == {F_zero, F_one, F_minus_one, F_tiny}

FloatStr(f) ==
    CASE f = F_zero -> <<"0",".","0">>
      [] f = F_one -> <<"1",".","0">>
      [] f = F_minus_one -> <<"-","1",".","0">>
      [] f = F_tiny -> <<"1","e","-","0","7">>

ParseFloat(tok) ==
    IF \E f \in FloatDomain : FloatStr(f) = tok
    THEN [ok |-> TRUE, val |-> CHOOSE f \in FloatDomain : FloatStr(f) = tok]
    ELSE IF ParseInt(tok).ok THEN [ok |-> TRUE, val |-> ParseInt(tok).val * F_one]
    ELSE ValueError

\* str.replace(old, new, 1) for one-character old and new
ReplaceFirst(s, old, new) ==
    IF old \in Range(s)
    THEN LET i == CHOOSE k \in 1..Len(s) : s[k] = old /\ \A j \in 1..(k - 1) : s[j] # old
         IN [k \in 1..Len(s) |-> IF k = i THEN new ELSE s[k]]
    ELSE s

\* a character is in a class: \w, \s, [\w\s\.], or not whitespace
InClass(c, class) ==
    CASE class = "word" -> IsWord(c)
      [] class = "space" -> IsSpace(c)
      [] class = "value" -> IsValueChar(c)
      [] class = "notspace" -> ~IsSpace(c)

\* the length of the longest prefix of s[from..] whose characters are in the class
RunLen(s, from, class) ==
    LET stops == {k \in from..Len(s) : ~InClass(s[k], class)}
    IN IF stops = {} THEN Len(s) - from + 1
       ELSE (CHOOSE k \in stops : \A j \in stops : k <= j) - from

\* the k-th smallest element of a finite set of integers
Nth(S, k) == CHOOSE i \in S : Cardinality({j \in S : j < i}) = k - 1

\* str.split(): split on runs of whitespace
Split(s) ==
    LET starts == {i \in 1..Len(s) : ~IsSpace(s[i]) /\ (i = 1 \/ IsSpace(s[i - 1]))}
    IN [k \in 1..Cardinality(starts) |->
           SubSeq(s, Nth(starts, k), Nth(starts, k) + RunLen(s, Nth(starts, k), "notspace") - 1)]

\* the groups of HEADER_PATTERN when \w+ takes w characters and \s+ takes sp:
\* when no value character follows, \s+ gives its last space back to group 2
MatchGroups(line, w, sp) ==
    LET v == RunLen(line, w + sp + 1, "value")
    IN IF w = 0 \/ sp = 0 THEN [ok |-> FALSE]
       ELSE IF v > 0
            THEN [ok |-> TRUE, g1 |-> SubSeq(line, 1, w),
                  g2 |-> SubSeq(line, w + sp + 1, w + sp + v)]
       ELSE IF sp >= 2
            THEN [ok |-> TRUE, g1 |-> SubSeq(line, 1, w), g2 |-> <<line[w + sp]>>]
       ELSE [ok |-> FALSE]

\* the match of HEADER_PATTERN when \w+ takes w characters
MatchAfterWord(line, w) == MatchGroups(line, w, RunLen(line, w + 1, "space"))

\* re.match(HEADER_PATTERN, line) with HEADER_PATTERN = (\w+)\s+([\w\s\.]+):
\* greedy matching anchored at the start of the line, with backtracking
MatchHeader(line) == MatchAfterWord(line, RunLen(line, 1, "word"))

(***************************************************************************)
(* The scalar type tables.                                                 *)
(***************************************************************************)
\* PCD_TYPE_TO_NUMPY_TYPE, keyed by <<type, size>>
TypeTableKeys ==
    {<<"F", 4>>, <<"F", 8>>,
     <<"U", 1>>, <<"U", 2>>, <<"U", 4>>, <<"U", 8>>,
     <<"I", 1>>, <<"I", 2>>, <<"I", 4>>, <<"I", 8>>}

PCD_TYPE_TO_NUMPY_TYPE(t, s) ==
    CASE t = "F" /\ s = 4 -> "float32"
      [] t = "F" /\ s = 8 -> "float64"
      [] t = "U" /\ s = 1 -> "uint8"
      [] t = "U" /\ s = 2 -> "uint16"
      [] t = "U" /\ s = 4 -> "uint32"
      [] t = "U" /\ s = 8 -> "uint64"
      [] t = "I" /\ s = 1 -> "int8"
      [] t = "I" /\ s = 2 -> "int16"
      [] t = "I" /\ s = 4 -> "int32"
      [] t = "I" /\ s = 8 -> "int64"

\* NUMPY_TYPE_TO_PCD_TYPE
NUMPY_TYPE_TO_PCD_TYPE(np) ==
    CASE np = "uint8" -> <<"U", 1>>
      [] np = "uint16" -> <<"U", 2>>
      [] np = "uint32" -> <<"U", 4>>
      [] np = "uint64" -> <<"U", 8>>
      [] np = "int8" -> <<"I", 1>>
      [] np = "int16" -> <<"I", 2>>
      [] np = "int32" -> <<"I", 4>>
      [] np = "int64" -> <<"I", 8>>
      [] np = "float32" -> <<"F", 4>>
      [] np = "float64" -> <<"F", 8>>

\* numpy.dtype(np).itemsize
ItemSize(np) == NUMPY_TYPE_TO_PCD_TYPE(np)[2]

(***************************************************************************)
(* MetaData.                                                               *)
(***************************************************************************)
DefaultViewpoint == <<F_zero, F_zero, F_zero, F_one, F_zero, F_zero, F_zero>>

RequiredKeys == {"fields", "size", "type", "count", "points", "width"}

\* validate_version
validate_version(value) ==
    IF value # S_07 THEN [ok |-> FALSE, err |-> "RuntimeError"] ELSE [ok |-> TRUE, val |-> value]

\* validate_points with the comparison < in place of <=
validate_points_strict(value) ==
    IF value < 0 THEN [ok |-> FALSE, err |-> "RuntimeError"] ELSE [ok |-> TRUE, val |-> value]

\* validate_points
validate_points(value) ==
    IF value <= 0 THEN [ok |-> FALSE, err |-> "RuntimeError"] ELSE [ok |-> TRUE, val |-> value]

\* validate_data
validate_data(value) ==
    LET v == IF value = S_binaryscompressed THEN S_binary_compressed ELSE value
    IN IF v \notin {S_ascii, S_binary, S_binary_compressed}
       THEN [ok |-> FALSE, err |-> "RuntimeError"]
       ELSE [ok |-> TRUE, val |-> v]

\* a dict of header keys: `keys` are the keys present, the other fields their values
EmptyHeader ==
    [keys |-> {}, fields |-> <<>>, size |-> <<>>, type |-> <<>>, count |-> <<>>,
     points |-> 0, width |-> 0, height |-> 0, version |-> <<>>, viewpoint |-> <<>>,
     data |-> <<>>]

\* MetaData.model_validate(h): the required keys, the three validators, the defaults
model_validate(h) ==
    LET version == IF "version" \in h.keys THEN h.version ELSE S_07
        data == IF "data" \in h.keys THEN h.data ELSE S_binary_compressed
    IN IF ~(RequiredKeys \subseteq h.keys) THEN [ok |-> FALSE, err |-> "ValidationError"]
       ELSE IF ~validate_points(h.points).ok THEN validate_points(h.points)
       ELSE IF ~validate_version(version).ok THEN validate_version(version)
       ELSE IF ~validate_data(data).ok THEN validate_data(data)
       ELSE [ok |-> TRUE,
             val |-> [fields |-> h.fields, size |-> h.size, type |-> h.type,
                      count |-> h.count, points |-> validate_points(h.points).val,
                      width |-> h.width,
                      height |-> IF "height" \in h.keys THEN h.height ELSE 1,
                      version |-> validate_version(version).val,
                      viewpoint |-> IF "viewpoint" \in h.keys THEN h.viewpoint
                                    ELSE DefaultViewpoint,
                      data |-> validate_data(data).val]]

\* a successful result
Ok(v) == [ok |-> TRUE, val |-> v]

\* r when it is an error, and the list of the values of rs otherwise
AllOk(rs) ==
    IF \E i \in 1..Len(rs) : ~rs[i].ok THEN ValueError
    ELSE Ok([i \in 1..Len(rs) |-> rs[i].val])

\* [int(v) for v in value]: the list, or the first error
ParseAllInt(value) == AllOk([i \in 1..Len(value) |-> ParseInt(value[i])])

\* [float(v) for v in value]: the list, or the first error
ParseAllFloat(value) == AllOk([i \in 1..Len(value) |-> ParseFloat(value[i])])

\* header[k] = v, once the conversion r of the value is known
SetKey(h, k, r) ==
    IF ~r.ok THEN r
    ELSE Ok([[h EXCEPT !.keys = @ \cup {k}] EXCEPT ![k] = r.val])

\* value[0], or IndexError
First(value) ==
    IF Len(value) = 0 THEN [ok |-> FALSE, err |-> "IndexError"] ELSE Ok(value[1])

\* int(value[0]), or the error of either step
FirstInt(value) ==
    IF Len(value) = 0 THEN [ok |-> FALSE, err |-> "IndexError"] ELSE ParseInt(value[1])

\* the branches of parse_header on the key of a matched line
SetHeaderKey(h, key, value) ==
    CASE key = S_version -> SetKey(h, "version", First(value))
      [] key = S_data -> SetKey(h, "data", First(value))
      [] key = S_width -> SetKey(h, "width", FirstInt(value))
      [] key = S_height -> SetKey(h, "height", FirstInt(value))
      [] key = S_points -> SetKey(h, "points", FirstInt(value))
      [] key = S_fields -> SetKey(h, "fields", Ok(value))
      [] key = S_type -> SetKey(h, "type", Ok(value))
      [] key = S_size -> SetKey(h, "size", ParseAllInt(value))
      [] key = S_count -> SetKey(h, "count", ParseAllInt(value))
      [] key = S_viewpoint -> SetKey(h, "viewpoint", ParseAllFloat(value))
      [] OTHER -> Ok(h)

\* the line after the match: unmatched lines are skipped
ParseMatch(h, m) ==
    IF ~m.ok THEN Ok(h) ELSE SetHeaderKey(h, Lower(m.g1), Split(m.g2))

\* the body of the loop of parse_header for one line: the updated dict or an error
ParseHeaderLine(h, rawline) ==
    IF (Len(rawline) > 0 /\ rawline[1] = "#") \/ Len(rawline) < 2 THEN Ok(h)
    ELSE ParseMatch(h, MatchHeader(ReplaceFirst(ReplaceFirst(rawline, "_", "s"), "_", "m")))

RECURSIVE ParseHeaderLines(_, _)
RECURSIVE ParseHeaderRest(_, _)
\* the loop of parse_header over the lines
ParseHeaderLines(h, lines) ==
    IF Len(lines) = 0 THEN Ok(h)
    ELSE ParseHeaderRest(ParseHeaderLine(h, lines[1]), Tail(lines))

\* the loop goes on after a line that raised nothing
ParseHeaderRest(r, lines) == IF r.ok THEN ParseHeaderLines(r.val, lines) ELSE r

\* the dict of parse_header goes to MetaData.model_validate
ValidateHeader(r) == IF r.ok THEN model_validate(r.val) ELSE r

\* MetaData.parse_header(lines)
parse_header(lines) == ValidateHeader(ParseHeaderLines(EmptyHeader, lines))

\* MetaData.compose_header(self): the ten lines, each followed by a newline
compose_header(self) ==
    LET sp == <<" ">>
        header ==
          << Upper(S_version) \o sp \o self.version,
             Upper(S_fields) \o sp \o Join(self.fields, sp),
             Upper(S_size) \o sp \o Join([i \in 1..Len(self.size) |-> StrInt(self.size[i])], sp),
             Upper(S_type) \o sp \o Join(self.type, sp),
             Upper(S_count) \o sp \o Join([i \in 1..Len(self.count) |-> StrInt(self.count[i])], sp),
             Upper(S_width) \o sp \o StrInt(self.width),
             Upper(S_height) \o sp \o StrInt(self.height),
             Upper(S_viewpoint) \o sp
                 \o Join([i \in 1..Len(self.viewpoint) |-> FloatStr(self.viewpoint[i])], sp),
             Upper(S_points) \o sp \o StrInt(self.points),
             Upper(S_data) \o sp \o self.data >>
    IN Join(header, <<"\n">>) \o <<"\n">>

\* str.splitlines(): the lines of a text, without their newlines
SplitLines(s) ==
    LET nl == {i \in 1..Len(s) : s[i] = "\n"}
        ends == nl \cup (IF Len(s) > 0 /\ s[Len(s)] # "\n" THEN {Len(s) + 1} ELSE {})
        start(k) == IF k = 1 THEN 1 ELSE Nth(ends, k - 1) + 1
    IN [k \in 1..Cardinality(ends) |-> SubSeq(s, start(k), Nth(ends, k) - 1)]

\* str.strip()
Strip(s) ==
    LET keep == {i \in 1..Len(s) : ~(IsSpace(s[i]) \/ s[i] = "\n")}
    IN IF keep = {} THEN <<>>
       ELSE SubSeq(s, CHOOSE i \in keep : \A j \in keep : i <= j,
                      CHOOSE i \in keep : \A j \in keep : i >= j)

\* the column names numbered from 1 and not from 0
ExpandedNamesFromOne(field, count) ==
    [k \in 1..(IF count > 0 THEN count ELSE 0) |-> field \o <<"_">> \o Pad4(StrNat(k))]

\* the column names f"{field}_{i:04d}" for i in range(count)
ExpandedNames(field, count) ==
    [k \in 1..(IF count > 0 THEN count ELSE 0) |-> field \o <<"_">> \o Pad4(StrNat(k - 1))]

RECURSIVE BuildDtypeFrom(_, _)
\* the loop of build_dtype from field i on: the list of <<name, numpy type>>
BuildDtypeFrom(self, i) ==
    IF i > Len(self.fields) THEN [ok |-> TRUE, val |-> <<>>]
    ELSE IF i > Len(self.type) \/ i > Len(self.size) THEN [ok |-> FALSE, err |-> "IndexError"]
    ELSE IF self.type[i] \notin {<<"F">>, <<"U">>, <<"I">>}
            \/ <<self.type[i][1], self.size[i]>> \notin TypeTableKeys
         THEN [ok |-> FALSE, err |-> "KeyError"]
    ELSE IF i > Len(self.count) THEN [ok |-> FALSE, err |-> "IndexError"]
    ELSE LET np_type == PCD_TYPE_TO_NUMPY_TYPE(self.type[i][1], self.size[i])
             count == self.count[i]
             cols == IF count = 1 THEN << [name |-> self.fields[i], np |-> np_type] >>
                     ELSE [k \in 1..Len(ExpandedNames(self.fields[i], count)) |->
                              [name |-> ExpandedNames(self.fields[i], count)[k], np |-> np_type]]
             rest == BuildDtypeFrom(self, i + 1)
         IN IF rest.ok THEN [ok |-> TRUE, val |-> cols \o rest.val] ELSE rest

\* numpy.dtype rejects a repeated column name
CheckNames(r) ==
    IF r.ok /\ \E i, j \in 1..Len(r.val) : i # j /\ r.val[i].name = r.val[j].name
    THEN ValueError
    ELSE r

\* MetaData.build_dtype(self)
build_dtype(self) == CheckNames(BuildDtypeFrom(self, 1))

RECURSIVE SumItemSize(_)
\* dtype.itemsize of a structured dtype: the packed record width
SumItemSize(dtype) ==
    IF Len(dtype) = 0 THEN 0 ELSE ItemSize(dtype[1].np) + SumItemSize(Tail(dtype))

(***************************************************************************)
(* Bytes.                                                                  *)
(***************************************************************************)
RECURSIVE Concat(_)
\* b"".join(parts)
Concat(parts) == IF Len(parts) = 0 THEN <<>> ELSE parts[1] \o Concat(Tail(parts))

\* a**b for small b
Pow256(k) == CASE k = 0 -> 1 [] k = 1 -> 256 [] k = 2 -> 65536 [] k = 3 -> 16777216

\* the n bytes of the value v < 2^31, least significant first (numpy tobytes,
\* struct.pack)
ToBytes(v, n) == [k \in 1..n |-> IF k <= 4 THEN (v \div Pow256(k - 1)) % 256 ELSE 0]

RECURSIVE FromBytes(_)
\* the value of a little-endian byte string (numpy frombuffer, struct.unpack)
FromBytes(b) == IF Len(b) = 0 THEN 0 ELSE b[1] + 256 * FromBytes(Tail(b))

\* struct.pack("II", a, b) for sizes below 2^31: two 4-byte unsigned integers
struct_pack_II(a, b) == ToBytes(a, 4) \o ToBytes(b, 4)

\* fp.read(n) on the bytes that are left
Read(bytes, n) == SubSeq(bytes, 1, IF n < Len(bytes) THEN n ELSE Len(bytes))

\* what is left after fp.read(n)
AfterRead(bytes, n) == SubSeq(bytes, (IF n < Len(bytes) THEN n ELSE Len(bytes)) + 1, Len(bytes))

(***************************************************************************)
(* The LZF primitive (the lzf module): the LZF stream format.  A control   *)
(* byte below 32 starts a literal run of ctrl + 1 bytes; any other control *)
(* byte is a back reference of (ctrl >> 5) + 2 bytes.                      *)
(***************************************************************************)
\* out followed by cnt bytes, each copied from off + 1 bytes back (the copy may
\* overlap what it writes)
CopyRef(out, off, cnt) ==
    [k \in 1..(Len(out) + cnt) |->
        IF k <= Len(out) THEN out[k]
        ELSE out[Len(out) - off + ((k - Len(out) - 1) % (off + 1))]]

\* one token of an LZF stream d, decoded at st = [i, out, err]: the state after it
LzfToken(d, st, n) ==
    IF d[st.i] < 32
    THEN \* literal run
         IF st.i + d[st.i] + 1 > Len(d) THEN [st EXCEPT !.err = "ValueError"]
         ELSE IF Len(st.out) + d[st.i] + 1 > n THEN [st EXCEPT !.err = "TypeError"]
         ELSE [st EXCEPT !.i = @ + d[st.i] + 2,
                         !.out = @ \o SubSeq(d, st.i + 1, st.i + d[st.i] + 1)]
    ELSE \* back reference
         LET long == (d[st.i] \div 32) = 7
             j == IF long THEN st.i + 2 ELSE st.i + 1
         IN IF j > Len(d) THEN [st EXCEPT !.err = "ValueError"]
            ELSE LET cnt == (d[st.i] \div 32) + (IF long THEN d[st.i + 1] ELSE 0) + 2
                     off == (d[st.i] % 32) * 256 + d[j]
                 IN IF Len(st.out) + cnt > n THEN [st EXCEPT !.err = "TypeError"]
                    ELSE IF off + 1 > Len(st.out) THEN [st EXCEPT !.err = "ValueError"]
                    ELSE [st EXCEPT !.i = j + 1, !.out = CopyRef(st.out, off, cnt)]

RECURSIVE LzfDecode(_, _, _)
\* the tokens of d from st on; each state is computed once
LzfDecode(d, st, n) ==
    IF st.err # "" THEN [ok |-> FALSE, err |-> st.err]
    ELSE IF st.i > Len(d) THEN [ok |-> TRUE, val |-> st.out]
    ELSE CHOOSE r \in {LzfDecode(d, next, n) : next \in {LzfToken(d, st, n)}} : TRUE

\* lzf.decompress(data, expected_size): the bytes; ValueError on a corrupt
\* stream; None (a TypeError at the len() that follows) when the output does
\* not fit in expected_size
lzf_decompress(data, expected_size) ==
    LzfDecode(data, [i |-> 1, out |-> <<>>, err |-> ""], expected_size)

LzfFlush(lit) == IF Len(lit) = 0 THEN <<>> ELSE <<Len(lit) - 1>> \o lit

\* the number of bytes from position i on that repeat the byte before i, at most 8
LzfRun(b, i) ==
    IF i = 1 THEN 0
    ELSE LET stops == {k \in i..Len(b) : b[k] # b[i - 1]} \cup {i + 8, Len(b) + 1}
         IN (CHOOSE k \in stops : \A j \in stops : k <= j) - i

\* one step of the encoder at st = [i, lit, out]: a back reference for a run
\* of 3 bytes or more, a literal otherwise
LzfStep(b, st) ==
    IF LzfRun(b, st.i) >= 3
    THEN [i |-> st.i + LzfRun(b, st.i), lit |-> <<>>,
          out |-> st.out \o LzfFlush(st.lit) \o <<(LzfRun(b, st.i) - 2) * 32, 0>>]
    ELSE IF Len(st.lit) = 32
    THEN [i |-> st.i + 1, lit |-> <<b[st.i]>>, out |-> st.out \o LzfFlush(st.lit)]
    ELSE [i |-> st.i + 1, lit |-> Append(st.lit, b[st.i]), out |-> st.out]

RECURSIVE LzfEncode(_, _)
\* the LZF stream of b from st on; each state is computed once
LzfEncode(b, st) ==
    IF st.i > Len(b) THEN st.out \o LzfFlush(st.lit)
    ELSE CHOOSE r \in {LzfEncode(b, next) : next \in {LzfStep(b, st)}} : TRUE

\* lzf.compress(data): an LZF stream shorter than data, or None when there is none
lzf_compress(data) ==
    LET stream == LzfEncode(data, [i |-> 1, lit |-> <<>>, out |-> <<>>])
    IN IF Len(data) > 0 /\ Len(stream) < Len(data)
       THEN [some |-> TRUE, val |-> stream]
       ELSE [some |-> FALSE, val |-> <<>>]

(***************************************************************************)
(* Record sets.  pc_data is a structured array: dtype is the list of       *)
(* [name, np] columns, rows the list of records.                           *)
(***************************************************************************)
DtypeNames(dtype) == [k \in 1..Len(dtype) |-> dtype[k].name]

\* pc_data[name] for a column name that exists
Column(pc_data, name) ==
    LET k == CHOOSE c \in 1..Len(pc_data.dtype) : pc_data.dtype[c].name = name
    IN [r \in 1..Len(pc_data.rows) |-> pc_data.rows[r][k]]

\* a value stored in a column of numpy type np keeps its low itemsize bytes
Cast(v, np) == FromBytes(ToBytes(v, ItemSize(np)))

\* column.tobytes()
ColumnBytes(col, np) == Concat([r \in 1..Len(col) |-> ToBytes(col[r], ItemSize(np))])

\* numpy.frombuffer(buf, dtype=np): the values, ValueError unless whole items
FromBuffer(buf, np) ==
    IF Len(buf) % ItemSize(np) # 0 THEN ValueError
    ELSE [ok |-> TRUE,
          val |-> [r \in 1..(Len(buf) \div ItemSize(np)) |->
                      FromBytes(SubSeq(buf, (r - 1) * ItemSize(np) + 1, r * ItemSize(np)))]]

\* the byte offset of column k in a packed record
ColOffset(dtype, k) == SumItemSize(SubSeq(dtype, 1, k - 1))

\* numpy.frombuffer(buf, dtype=dtype) for a structured dtype: packed records
FromBufferRecords(buf, dtype) ==
    LET itemsize == SumItemSize(dtype)
    IN IF itemsize = 0 \/ Len(buf) % itemsize # 0 THEN ValueError
       ELSE [ok |-> TRUE,
             val |-> [dtype |-> dtype,
                      rows |-> [r \in 1..(Len(buf) \div itemsize) |->
                                  [k \in 1..Len(dtype) |->
                                     FromBytes(SubSeq(buf,
                                        (r - 1) * itemsize + ColOffset(dtype, k) + 1,
                                        (r - 1) * itemsize + ColOffset(dtype, k)
                                            + ItemSize(dtype[k].np)))]]]]

\* numpy.loadtxt(fp, dtype=dtype, delimiter=" "): one record for each line of
\* text, ValueError when a line has not one token for each column
loadtxt(rows, dtype) ==
    IF \E r \in 1..Len(rows) : Len(rows[r]) # Len(dtype) THEN ValueError
    ELSE [ok |-> TRUE,
          val |-> [dtype |-> dtype,
                   rows |-> [r \in 1..Len(rows) |->
                               [k \in 1..Len(dtype) |-> Cast(rows[r][k], dtype[k].np)]]]]

\* frombuffer on the slice of column k of the decompressed buffer
ColumnSlice(buffer, dtype, width, k) ==
    FromBuffer(SubSeq(buffer, width * ColOffset(dtype, k) + 1,
                      IF width * (ColOffset(dtype, k) + ItemSize(dtype[k].np)) < Len(buffer)
                      THEN width * (ColOffset(dtype, k) + ItemSize(dtype[k].np))
                      ELSE Len(buffer)),
               dtype[k].np)

\* pc_data[name] = column for each column; an assignment of n values to a
\* column of `width` rows needs n = width, or n = 1 (broadcast)
AssignColumns(cols, dtype, width) ==
    IF \E k \in 1..Len(dtype) : ~cols[k].ok \/ Len(cols[k].val) \notin {1, width}
    THEN ValueError
    ELSE Ok([dtype |-> dtype,
             rows |-> [r \in 1..width |->
                         [k \in 1..Len(dtype) |->
                            IF Len(cols[k].val) = 1 THEN cols[k].val[1]
                            ELSE cols[k].val[r]]]])

\* the loop of the binary_compressed branch over the columns
DecodeColumns(buffer, dtype, width) ==
    AssignColumns([k \in 1..Len(dtype) |-> ColumnSlice(buffer, dtype, width, k)],
                  dtype, width)

\* the binary_compressed branch once lzf.decompress has returned
DecodeBuffer(buffer, uncompressed_size, dtype, width) ==
    IF ~buffer.ok THEN buffer
    ELSE IF Len(buffer.val) # uncompressed_size THEN [ok |-> FALSE, err |-> "RuntimeError"]
    ELSE DecodeColumns(buffer.val, dtype, width)

\* the branches of _parse_pc_data on metadata.data, for the dtype d
ParseData(fp, metadata, d) ==
    IF ~d.ok THEN d
    ELSE IF metadata.data = S_ascii THEN loadtxt(fp.rows, d.val)
    ELSE IF metadata.data = S_binary
         THEN FromBufferRecords(Read(fp.bytes, metadata.points * SumItemSize(d.val)), d.val)
    ELSE IF metadata.data = S_binary_compressed
         THEN IF Len(Read(fp.bytes, 8)) < 8 THEN [ok |-> FALSE, err |-> "struct.error"]
              ELSE DecodeBuffer(
                       lzf_decompress(Read(AfterRead(fp.bytes, 8),
                                           FromBytes(SubSeq(fp.bytes, 1, 4))),
                                      FromBytes(SubSeq(fp.bytes, 5, 8))),
                       FromBytes(SubSeq(fp.bytes, 5, 8)), d.val, metadata.width)
    ELSE [ok |-> FALSE, err |-> "RuntimeError"]

\* _parse_pc_data(fp, metadata); fp holds the payload: `bytes` for the binary
\* encodings, `rows` (lines of numeric tokens) for ascii
parse_pc_data(fp, metadata) == ParseData(fp, metadata, build_dtype(metadata))

\* numpy.rec.fromarrays(arrays, dtype=dtype): one array for each column, all
\* of one length
fromarrays(arrays, dtype) ==
    IF Len(arrays) # Len(dtype) \/ \E k \in 1..Len(arrays) : Len(arrays[k]) # Len(arrays[1])
    THEN ValueError
    ELSE [ok |-> TRUE,
          val |-> [dtype |-> dtype,
                   rows |-> [r \in 1..(IF Len(arrays) = 0 THEN 0 ELSE Len(arrays[1])) |->
                               [k \in 1..Len(dtype) |-> Cast(arrays[k][r], dtype[k].np)]]]]

\* numpy.rec.fromarrays on the columns of points, for the dtype d
ComposeData(points, isarray, metadata, d) ==
    IF isarray /\ Len(points) < Len(metadata.fields) THEN [ok |-> FALSE, err |-> "IndexError"]
    ELSE IF ~d.ok THEN d
    ELSE fromarrays(IF isarray THEN SubSeq(points, 1, Len(metadata.fields)) ELSE points, d.val)

\* _compose_pc_data(points, metadata); points is given by its columns, isarray
\* says that it is one (N, M) ndarray and not a sequence of arrays
compose_pc_data(points, isarray, metadata) ==
    ComposeData(points, isarray, metadata, build_dtype(metadata))

\* PointCloud(metadata, pc_data), once pc_data is known
WithData(metadata, pc) ==
    IF ~pc.ok THEN pc ELSE Ok([metadata |-> metadata, pc_data |-> pc.val])

\* from_points once MetaData.model_validate has returned
WithMetadata(points, isarray, metadata) ==
    IF ~metadata.ok THEN metadata
    ELSE WithData(metadata.val, compose_pc_data(points, isarray, metadata.val))

\* PointCloud.from_points(points, fields, types, count); count is optional
from_points(points, isarray, fields, types, count) ==
    WithMetadata(points, isarray,
        model_validate(
            [EmptyHeader EXCEPT
                !.keys = RequiredKeys,
                !.fields = fields,
                !.size = [i \in 1..Len(types) |-> NUMPY_TYPE_TO_PCD_TYPE(types[i])[2]],
                !.type = [i \in 1..Len(types) |-> <<NUMPY_TYPE_TO_PCD_TYPE(types[i])[1]>>],
                !.count = IF ~count.given THEN [i \in 1..Len(fields) |-> 1] ELSE count.val,
                !.width = Len(points[1]),
                !.points = Len(points[1])]))

\* PointCloud.numpy(self, fields): the matrix by its column names and its rows;
\* fields is optional, and the list comprehension reads self.fields
numpy(self, fields) ==
    LET names == self.metadata.fields
    IN IF \E i \in 1..Len(names) : names[i] \notin Range(DtypeNames(self.pc_data.dtype))
       THEN [ok |-> FALSE, err |-> "KeyError"]
       ELSE [ok |-> TRUE,
             val |-> [columns |-> names,
                      rows |-> [r \in 1..Len(self.pc_data.rows) |->
                                  [i \in 1..Len(names) |-> Column(self.pc_data, names[i])[r]]]]]

\* the metadata of a save that keeps the encoding it finds
save_metadata_keep(metadata) == metadata

\* self.metadata.data = "binary_compressed", the first statement of save
save_metadata(metadata) == [metadata EXCEPT !.data = S_binary_compressed]

\* the sizes and the stream of save: the raw bytes when lzf.compress returns None
PackStream(uncompressed, c) ==
    IF c.some THEN struct_pack_II(Len(c.val), Len(uncompressed)) \o c.val
    ELSE struct_pack_II(Len(uncompressed), Len(uncompressed)) \o uncompressed

\* the column-major bytes of save, compressed
Pack(uncompressed) == PackStream(uncompressed, lzf_compress(uncompressed))

\* the bytes PointCloud.save writes after the header
save_payload(pc_data) ==
    Pack(Concat([k \in 1..Len(pc_data.dtype) |->
                   ColumnBytes(Column(pc_data, pc_data.dtype[k].name), pc_data.dtype[k].np)]))

(***************************************************************************)
(* The inputs of the model.                                                *)
(***************************************************************************)
N_X == <<"x">>
N_Y == <<"y">>
N_A_B == <<"a", "_", "b">>

\* the (N, M) matrix of cell values of a seed, by its columns
Matrix(N, M, seed) == [k \in 1..M |-> [r \in 1..N |-> (seed * (r + k)) % (MaxVal + 1)]]

\* the columns of a matrix as rows
Transpose(cols, N) == [r \in 1..N |-> [k \in 1..Len(cols) |-> cols[k][r]]]

FieldLists == {<<N_X>>, <<N_A_B>>, <<N_X, N_A_B>>}
TypeLists == {<<"uint8">>, <<"float32">>, <<"float32", "uint8">>}
\* an optional argument: None, or a value
None == [given |-> FALSE, val |-> <<>>]
Some(v) == [given |-> TRUE, val |-> v]

CountLists == {None} \cup {Some(<<c>>) : c \in 1..MaxCount} \cup {Some(<<1, c>>) : c \in 1..MaxCount}

\* the arguments of from_points
PointsInputs ==
    {[has |-> TRUE, points |-> Matrix(N, M, seed), isarray |-> ia, fields |-> f,
      types |-> t, count |-> c] :
        N \in 0..MaxPoints, M \in 1..(MaxCount + 1), seed \in 0..MaxVal, ia \in BOOLEAN,
        f \in FieldLists, t \in TypeLists, c \in CountLists}

\* the per-field lists of the headers: <<fields, size, type, count>>
FieldSpecs ==
    {<< <<N_X>>, <<s>>, <<t>>, <<c>> >> :
        s \in {1, 4}, t \in {<<"U">>, <<"F">>}, c \in 0..MaxCount}
    \cup {<< <<N_X, N_Y>>, <<4, 1>>, <<<<"F">>, <<"U">>>>, <<1, c>> >> : c \in 1..MaxCount}
    \cup {<< <<N_X, N_A_B>>, <<4, 1>>, <<<<"F">>, <<"U">>>>, <<1, 1>> >>,
          << <<N_X, N_Y>>, <<4>>, <<<<"F">>>>, <<1>> >>,
          << <<N_X>>, <<4, 1>>, <<<<"F">>, <<"U">>>>, <<1>> >>}

Viewpoints ==
    {DefaultViewpoint,
     <<F_zero, F_zero, F_minus_one, F_one, F_zero, F_zero, F_zero>>,
     <<F_minus_one, F_zero, F_zero, F_one, F_zero, F_zero, F_zero>>,
     <<F_zero, F_zero, F_tiny, F_one, F_zero, F_zero, F_zero>>}

S_foo == <<"f", "o", "o">>

\* header attributes as a PCD writer puts them in a header, valid or not
RawHeader(fs, p, w, h, v, vp, d) ==
    [fields |-> fs[1], size |-> fs[2], type |-> fs[3], count |-> fs[4],
     points |-> p * w * h, width |-> w, height |-> h, version |-> v, viewpoint |-> vp,
     data |-> d]

BaseFieldSpec == << <<N_X>>, <<4>>, <<<<"F">>>>, <<1>> >>

\* a header without the line of one keyword (drop = 0: the whole header)
DropLine(ls, drop) == SubSeq(ls, 1, drop - 1) \o SubSeq(ls, drop + 1, Len(ls))

\* the header lines handed to parse_header: every field list, size and
\* viewpoint in a header that is valid otherwise, and every version, point
\* count and DATA value, with and without the VERSION and POINTS lines
HeaderInputs ==
    {SplitLines(compose_header(RawHeader(fs, 1, w, h, S_07, vp, S_binary_compressed))) :
        fs \in FieldSpecs, w \in 1..MaxPoints, h \in 1..MaxPoints, vp \in Viewpoints}
    \cup
    {DropLine(SplitLines(compose_header(RawHeader(BaseFieldSpec, p, 1, 1, v, DefaultViewpoint, d))),
              drop) :
        p \in {0, 1}, v \in {S_07, S_06}, drop \in {0, 1, 9},
        d \in {S_ascii, S_binary, S_binary_compressed, S_binaryscompressed, S_foo}}

\* the schemas of the files given to load: valid, points = width * height
FileSchemas ==
    {[fields |-> fs[1], size |-> fs[2], type |-> fs[3], count |-> fs[4],
      points |-> w * h, width |-> w, height |-> h, version |-> S_07,
      viewpoint |-> DefaultViewpoint, data |-> d] :
        fs \in {<< <<N_X>>, <<1>>, <<<<"U">>>>, <<1>> >>,
                << <<N_X>>, <<4>>, <<<<"F">>>>, <<1>> >>,
                << <<N_X, N_Y>>, <<4, 1>>, <<<<"F">>, <<"U">>>>, <<1, 1>> >>},
        w \in 1..MaxPoints, h \in 1..MaxPoints,
        d \in {S_ascii, S_binary, S_binary_compressed}}

\* the record set of a schema whose cells are those of a seed
RecordsOf(m, seed) ==
    [dtype |-> build_dtype(m).val,
     rows |-> Transpose(Matrix(m.points, Len(build_dtype(m).val), seed), m.points)]

\* the row-major packed records of the binary encoding
BinaryBytes(pc_data) ==
    Concat([r \in 1..Len(pc_data.rows) |->
              Concat([k \in 1..Len(pc_data.dtype) |->
                        ToBytes(pc_data.rows[r][k], ItemSize(pc_data.dtype[k].np))])])

NoCloud == [has |-> FALSE]
NoFile == [exists |-> FALSE]
NoArgs == [has |-> FALSE]
NoHeader == [has |-> FALSE]
NoSchema == [has |-> FALSE]
NoResult == [op |-> "none"]

\* a sequence without its last `cut` elements
CutEnd(q, cut) == SubSeq(q, 1, IF cut < Len(q) THEN Len(q) - cut ELSE 0)

\* the bytes after the header of a file of schema m that holds recs
FilePayload(m, recs) ==
    IF m.data = S_binary THEN BinaryBytes(recs)
    ELSE IF m.data = S_binary_compressed THEN save_payload(recs)
    ELSE <<>>

\* a PCD file of a schema and a record set with `cut` bytes (lines, for ascii)
\* missing at its end
FileWith(m, recs, cut) ==
    [exists |-> TRUE, text |-> compose_header(m),
     bytes |-> CutEnd(FilePayload(m, recs), cut),
     rows |-> CutEnd(IF m.data = S_ascii THEN recs.rows ELSE <<>>, cut),
     saved |-> NoCloud]

FileOf(m, seed, cut) == FileWith(m, RecordsOf(m, seed), cut)

\* streams without a line that starts with DATA: the empty stream, a header
\* whose last line is written in lower case, a header cut before its last line
NoDataFiles ==
    {[exists |-> TRUE, text |-> t, bytes |-> <<>>, rows |-> <<>>, saved |-> NoCloud] :
        t \in {<<>>} \cup
              UNION {{Join(SubSeq(SplitLines(compose_header(m)), 1, 9), <<"\n">>) \o <<"\n">>,
                      Join(Append(SubSeq(SplitLines(compose_header(m)), 1, 9),
                                  S_data \o <<" ">> \o m.data), <<"\n">>) \o <<"\n">>} :
                     m \in FileSchemas}}

FileInputs ==
    UNION {{FileOf(m, seed, cut) : seed \in 0..MaxVal,
                                   cut \in {0, 1, SumItemSize(build_dtype(m).val)}} :
           m \in FileSchemas}
    \cup NoDataFiles

(***************************************************************************)
(* The state.                                                              *)
(***************************************************************************)
VARIABLES
    cloud,      \* the PointCloud the program holds: [has, metadata, pc_data]
    file,       \* the file: [exists, text, bytes, rows, saved]; text is the header,
                \* bytes/rows the payload, saved the cloud a save wrote it from
    pc,         \* from_fileobj: "idle" or "reading" (in the readline loop)
    lines,      \* from_fileobj: the local list `lines`
    header,     \* the header lines in hand: [has, lines, of]; of is the schema
                \* compose_header made them from
    args,       \* the arguments for from_points: [has, points, isarray, fields, types, count]
    result      \* the outcome of the last operation

vars == <<cloud, file, pc, lines, header, args, result>>

\* no cloud is held, no call is running
Blank ==
    /\ cloud = NoCloud
    /\ pc = "idle"
    /\ lines = <<>>
    /\ result = NoResult

\* the facade starts from a file to load or from the arguments of from_points
Init ==
    /\ Blank
    /\ header = NoHeader
    /\ \/ file \in FileInputs /\ args = NoArgs
       \/ file = NoFile /\ args \in PointsInputs

\* the schema model starts from header lines or from the arguments of from_points
SchemaInit ==
    /\ Blank
    /\ file = NoFile
    /\ \/ /\ header \in {[has |-> TRUE, lines |-> ls, of |-> NoSchema] : ls \in HeaderInputs}
          /\ args = NoArgs
       \/ header = NoHeader /\ args \in PointsInputs

(***************************************************************************)
(* The operations.                                                         *)
(***************************************************************************)
\* the validated schemas in hand: of the cloud, and of the last parse_header
Schemas ==
    (IF cloud.has THEN {cloud.metadata} ELSE {})
    \cup (IF result.op = "parse_header" /\ result.out.ok THEN {result.out.val} ELSE {})

\* the cloud after a constructor returned out
Held(out) ==
    IF out.ok THEN [has |-> TRUE, metadata |-> out.val.metadata, pc_data |-> out.val.pc_data]
    ELSE cloud

\* PointCloud.from_points(points, fields, types, count)
FromPoints ==
    /\ args.has
    /\ pc = "idle"
    /\ \E out \in {from_points(args.points, args.isarray, args.fields, args.types,
                                args.count)} :
         /\ result' = [op |-> "from_points", out |-> out]
         /\ cloud' = Held(out)
    /\ UNCHANGED <<file, pc, lines, header, args>>

\* MetaData.parse_header(lines)
ParseHeader ==
    /\ header.has
    /\ result' = [op |-> "parse_header", lines |-> header.lines, of |-> header.of,
                  out |-> parse_header(header.lines)]
    /\ UNCHANGED <<cloud, file, pc, lines, header, args>>

\* MetaData.compose_header(self), and the split of its text into lines
ComposeHeader ==
    /\ \E self \in Schemas :
         /\ header' = [has |-> TRUE, lines |-> SplitLines(compose_header(self)),
                       of |-> [has |-> TRUE, m |-> self]]
         /\ result' = [op |-> "compose_header", self |-> self, out |-> compose_header(self)]
    /\ UNCHANGED <<cloud, file, pc, lines, args>>

\* MetaData.build_dtype(self)
BuildDtype ==
    /\ \E self \in Schemas :
         result' = [op |-> "build_dtype", self |-> self, out |-> build_dtype(self)]
    /\ UNCHANGED <<cloud, file, pc, lines, header, args>>

\* the field lists a caller passes to PointCloud.numpy
Subsets(fields) ==
    {None} \cup {Some(<<fields[i]>>) : i \in 1..Len(fields)}
    \cup {Some(<<fields[i], fields[j]>>) : i, j \in 1..Len(fields)}

\* PointCloud.numpy(self, fields)
Numpy ==
    /\ cloud.has
    /\ pc = "idle"
    /\ \E fields \in Subsets(cloud.metadata.fields) :
         result' = [op |-> "numpy", fields |-> fields, out |-> numpy(cloud, fields)]
    /\ UNCHANGED <<cloud, file, pc, lines, header, args>>

\* PointCloud.save(self, path)
Save ==
    /\ cloud.has
    /\ pc = "idle"
    /\ cloud' = [cloud EXCEPT !.metadata = save_metadata(cloud.metadata)]
    /\ file' = [exists |-> TRUE, text |-> compose_header(cloud'.metadata),
                bytes |-> save_payload(cloud.pc_data), rows |-> <<>>, saved |-> cloud']
    /\ result' = [op |-> "save", before |-> cloud]
    /\ UNCHANGED <<pc, lines, header, args>>

\* PointCloud.from_path / from_fileobj: the stream is opened
LoadBegin ==
    /\ pc = "idle"
    /\ file.exists
    /\ pc' = "reading"
    /\ lines' = <<>>
    /\ result' = NoResult
    /\ UNCHANGED <<cloud, file, header, args>>

\* fp.readline().strip() after n lines were read: the empty string at the end
ReadLineAt(n) ==
    IF n < Len(SplitLines(file.text)) THEN Strip(SplitLines(file.text)[n + 1]) ELSE <<>>

\* from_fileobj once parse_header has returned
LoadData(fp, metadata) ==
    IF ~metadata.ok THEN metadata
    ELSE WithData(metadata.val, parse_pc_data(fp, metadata.val))

\* what follows the loop of from_fileobj: parse_header, _parse_pc_data,
\* PointCloud(metadata, pc_data)
LoadLines(fp, read) == LoadData(fp, parse_header(read))

\* the list `lines` after one more line; of the empty lines read at the end of
\* input, which parse_header skips, the list keeps MaxEofReads at most and
\* starts again from one
AppendLine(line) ==
    IF Len(lines) < Len(SplitLines(file.text)) + MaxEofReads THEN Append(lines, line)
    ELSE SubSeq(lines, 1, Len(SplitLines(file.text)) + 1)

\* one turn of the loop of from_fileobj, and what follows the loop when it breaks
ReadLine ==
    /\ pc = "reading"
    /\ \E line \in {ReadLineAt(Len(lines))} :
         IF StartsWith(line, S_DATA)
         THEN \E out \in {LoadLines(file, Append(lines, line))} :
                /\ pc' = "idle"
                /\ lines' = <<>>
                /\ result' = [op |-> "load", out |-> out]
                /\ cloud' = Held(out)
         ELSE /\ lines' = AppendLine(line)
              /\ UNCHANGED <<pc, result, cloud>>
    /\ UNCHANGED <<file, header, args>>

\* the facade: construction, save, load, numpy
Next ==
    \/ FromPoints
    \/ Numpy
    \/ Save
    \/ LoadBegin
    \/ ReadLine

Spec == Init /\ [][Next]_vars

\* the loop of from_fileobj runs on: it is not suspended between two reads
FairSpec == Spec /\ WF_vars(ReadLine)

\* the schema model: validated construction, header text, row layout
SchemaNext ==
    \/ FromPoints
    \/ ParseHeader
    \/ ComposeHeader
    \/ BuildDtype

SchemaSpec == SchemaInit /\ [][SchemaNext]_vars

(***************************************************************************)
(* Properties.                                                             *)
(***************************************************************************)
RECURSIVE SumSeq(_)
SumSeq(q) == IF Len(q) = 0 THEN 0 ELSE q[1] + SumSeq(Tail(q))

\* the four per-field lists of a schema have one length
Parity(m) == Len(m.fields) = Len(m.size) /\ Len(m.size) = Len(m.type) /\ Len(m.type) = Len(m.count)

\* a valid Schema: list parity, points = width * height > 0, a row layout
ValidSchema(m) ==
    /\ Parity(m)
    /\ m.points > 0
    /\ m.points = m.width * m.height
    /\ \A i \in 1..Len(m.count) : m.count[i] >= 1
    /\ build_dtype(m).ok

\* a valid Schema with a Record Set of its row layout and of `points` rows
ValidCloud(c) ==
    /\ c.has
    /\ ValidSchema(c.metadata)
    /\ c.pc_data.dtype = build_dtype(c.metadata).val
    /\ Len(c.pc_data.rows) = c.metadata.points

\* the header line of a keyword and a value
KeyLine(key, value) == Upper(key) \o <<" ">> \o value

HasLine(ls, l) == \E i \in 1..Len(ls) : ls[i] = l

HasKey(ls, key) == \E i \in 1..Len(ls) : StartsWith(ls[i], Upper(key))

\* C1: binary-compressed round trip: loading the file that save wrote from a
\* valid Schema and Record Set succeeds and returns the same columns, the same
\* number of rows and the same value in every cell, whether or not the
\* compression primitive compressed the buffer.
C1_RoundTrip ==
    (result.op = "load" /\ file.saved.has /\ ValidCloud(file.saved))
        => (result.out.ok /\ result.out.val.pc_data = file.saved.pc_data)

\* C2: header round trip: parse_header of the lines of compose_header(schema)
\* returns the schema, for every validated schema.
C2_HeaderRoundTrip ==
    (result.op = "parse_header" /\ result.of.has)
        => (result.out.ok /\ result.out.val = result.of.m)

\* the three validated attributes of a schema
C3_Validated(m) ==
    /\ m.version = S_07
    /\ m.points > 0
    /\ m.data \in {S_ascii, S_binary, S_binary_compressed}

\* C3: validated construction (parse_header, from_points) succeeds only with
\* version "0.7", points > 0 and an encoding among ascii, binary and
\* binary_compressed; version "0.6", points = 0 and any other encoding are
\* rejected; the legacy "binaryscompressed" is accepted and stored as
\* "binary_compressed".
C3_ValidatedConstruction ==
    /\ result.op = "parse_header" =>
         /\ result.out.ok => C3_Validated(result.out.val)
         /\ HasLine(result.lines, KeyLine(S_version, S_06)) => ~result.out.ok
         /\ HasLine(result.lines, KeyLine(S_points, <<"0">>)) => ~result.out.ok
         /\ HasLine(result.lines, KeyLine(S_data, S_foo)) => ~result.out.ok
         /\ ( /\ HasLine(result.lines, KeyLine(S_data, S_binaryscompressed))
              /\ ~HasLine(result.lines, KeyLine(S_version, S_06))
              /\ HasKey(result.lines, S_points)
              /\ ~HasLine(result.lines, KeyLine(S_points, <<"0">>)) )
            => (result.out.ok /\ result.out.val.data = S_binary_compressed)
    /\ result.op = "from_points" =>
         /\ result.out.ok => C3_Validated(result.out.val.metadata)
         /\ Len(args.points[1]) = 0 => ~result.out.ok

\* C3 witness: a header with the legacy DATA value has been parsed and accepted
C3_Witness ==
    /\ result.op = "parse_header"
    /\ HasLine(result.lines, KeyLine(S_data, S_binaryscompressed))
    /\ result.out.ok

\* C4: save forces the encoding to binary_compressed: the written header ends
\* with the line "DATA binary_compressed", the payload is the 8-byte size
\* header followed by compressed_size bytes, and save changes nothing else of
\* the Schema and no cell of the Record Set.
C4_SaveForcesEncoding ==
    result.op = "save" =>
        /\ SplitLines(file.text)[Len(SplitLines(file.text))]
               = KeyLine(S_data, S_binary_compressed)
        /\ Len(file.bytes) >= 8
        /\ Len(file.bytes) = 8 + FromBytes(SubSeq(file.bytes, 1, 4))
        /\ cloud.metadata.data = S_binary_compressed
        /\ \A k \in {"fields", "size", "type", "count", "points", "width", "height",
                     "version", "viewpoint"} :
               cloud.metadata[k] = result.before.metadata[k]
        /\ cloud.pc_data = result.before.pc_data

\* C4 witness: a cloud whose encoding was ascii has been saved
C4_Witness == result.op = "save" /\ result.before.metadata.data = S_ascii

\* C5: numpy with a field subset returns N rows by exactly the selected
\* columns, in the order given; without a subset, N rows by all the columns of
\* the Record Set.
C5_NumpySubset ==
    ( /\ result.op = "numpy"
      /\ Range(result.fields.val) \subseteq Range(DtypeNames(cloud.pc_data.dtype)) )
        => /\ result.out.ok
           /\ Len(result.out.val.rows) = Len(cloud.pc_data.rows)
           /\ result.out.val.columns = IF result.fields.given THEN result.fields.val
                                       ELSE DtypeNames(cloud.pc_data.dtype)

\* C6: decoding a binary payload with fewer than points * stride bytes fails,
\* for every shortfall.
C6_BinaryTruncated ==
    result.op = "load" =>
        \A m \in {parse_header(SplitLines(file.text))} :
            ( /\ m.ok
              /\ m.val.data = S_binary
              /\ build_dtype(m.val).ok
              /\ Len(file.bytes) < m.val.points * SumItemSize(build_dtype(m.val).val) )
                => ~result.out.ok

\* the number of columns before those of field i
C7_Start(m, i) == SumSeq(SubSeq(m.count, 1, i - 1))

\* the suffix _000k of the k-th column of a field, k < 10
C7_Suffix(k) == <<"_", "0", "0", "0", Digits[k + 1]>>

\* every (type, size) pair of a schema is in the table
C7_InTable(m) ==
    \A i \in 1..Len(m.fields) :
        Len(m.type[i]) = 1 /\ <<m.type[i][1], m.size[i]>> \in TypeTableKeys

\* the schemas C7 is about: list parity, counts from 0, distinct field names
C7_Schema(m) ==
    /\ Parity(m)
    /\ \A i \in 1..Len(m.count) : m.count[i] >= 0
    /\ \A i, j \in 1..Len(m.fields) : i # j => m.fields[i] # m.fields[j]

C8_DecodedLength ==
    ( /\ result.op = "load"
      /\ result.out.ok
      /\ result.out.val.metadata.points
             = result.out.val.metadata.width * result.out.val.metadata.height )
        => Len(result.out.val.pc_data.rows) = result.out.val.metadata.points

\* C9: in every Schema parse_header or from_points returns, the four per-field
\* lists have one length.
C9_ArrayParity ==
    /\ (result.op = "parse_header" /\ result.out.ok) => Parity(result.out.val)
    /\ (result.op = "from_points" /\ result.out.ok) => Parity(result.out.val.metadata)

\* C10: load terminates: a from_fileobj that is reading eventually returns a
\* PointCloud or raises.
C10_LoadTerminates == (pc = "reading") ~> (pc = "idle")

====
